---------------------------- MODULE Spec2Model ----------------------------
(*
  Model of the input and frame-statistics core of the application shell:

    InputAction   src/src/app/input_action.rs
    InputManager  src/src/app/input_manager.rs
    FrameHistory  src/src/app/frame_history.rs

  Three specifications share the module, one per unit under test:

    SpecAction   every sequence of calls on one InputAction
    SpecManager  every interleaving of InputManager calls and consumer reads
    SpecHistory  every sequence of FrameHistory::on_new_frame calls
*)
EXTENDS Integers, Sequences, FiniteSets, TLC

VARIABLES
    actions,       \* the InputAction instances (the Rc<RefCell<InputAction>> cells), by identity
    hist,          \* the calls made so far on the action under test, with results
                   \* (frame history: the on_new_frame calls, while no sample was dropped;
                   \* SpecFrames: the sample each update_frame_history added)
    key_actions,   \* InputManager.key_actions : key -> action identity
    pressed_keys,  \* InputManager.pressed_keys: key -> action identity
    last,          \* the InputManager call made last, with the actions held before it
    frame_times,   \* FrameHistory.frame_times : the History<f32> window
    newest,        \* the timestamp of the latest on_new_frame call (-1: none yet)
    evicted,       \* the largest timestamp of a sample dropped so far (-1: none yet)
    pc,            \* App::run: the step the main loop is at
    run,           \* App::run: its local variables
    clock,         \* the performance counter: the reading it gave last
    env,           \* what the platform may deliver: event batches, counter readings
    polled,        \* the batch handle_events polled last and the InputManager calls it made
    obs            \* the steps of the current loop iteration and what they measured

loop_vars == <<pc, run, clock, env, polled, obs>>

vars == <<actions, hist, key_actions, pressed_keys, last,
          frame_times, newest, evicted, loop_vars>>

(***************************************************************************)
(* Bounds of the model                                                     *)
(***************************************************************************)
MaxCalls == 5        \* calls made on the action under test in SpecAction
MaxGivenCalls == 2   \* calls made on the action under test in SpecAnyAction
MaxAmount == 3       \* key_pressed is not explored past this accumulated amount
MaxTime == 5         \* timestamps given to on_new_frame are 0..MaxTime
MaxLenBound == 3     \* FrameHistory::new is explored with max_len in 0..MaxLenBound
MaxAgeBound == 2     \* FrameHistory::new is explored with max_age in 1..MaxAgeBound

(***************************************************************************)
(* InputAction                                              input_action.rs *)
(***************************************************************************)
I32Max == 2147483647
I32Min == (-2147483647) - 1

InputActionBehavior == {"Normal", "DetectRepeat", "DetectInitialPressOnly"}
InputActionState == {"Released", "Pressed", "WaitingForRelease"}

\* The builder's defaults for the skipped fields: state Released, amount 0.
InputAction(b) == [behavior |-> b, state |-> "Released", amount |-> 0]

\* i32::wrapping_add: the sum modulo 2^32, computed without leaving the 32-bit range.
wrapping_add(x, y) ==
    IF y > 0 /\ x > I32Max - y THEN ((x - I32Max) - 1) + ((y - I32Max) - 1)
    ELSE IF y < 0 /\ x < I32Min - y THEN (x - I32Min) + (y - I32Min)
    ELSE x + y

\* i32::saturating_add, computed without leaving the 32-bit range.
saturating_add(x, y) ==
    IF y > 0 /\ x > I32Max - y THEN I32Max
    ELSE IF y < 0 /\ x < I32Min - y THEN I32Min
    ELSE x + y

\* press_with with the repeat guard applied to Normal as well.
press_with_guard_on_normal(self, amount) ==
    IF self.state # "WaitingForRelease"
    THEN LET added == [self EXCEPT !.amount = saturating_add(self.amount, amount)]
             acc == IF self.behavior \in {"Normal", "DetectRepeat"} /\ self.state # "Pressed"
                    THEN added ELSE self
         IN  [acc EXCEPT !.state = "Pressed"]
    ELSE self

\* press_with with the repeat guard of DetectRepeat left out.
press_with_no_repeat_guard(self, amount) ==
    IF self.state # "WaitingForRelease"
    THEN LET added == [self EXCEPT !.amount = saturating_add(self.amount, amount)]
             acc == IF self.behavior \in {"Normal", "DetectRepeat"} THEN added ELSE self
         IN  [acc EXCEPT !.state = "Pressed"]
    ELSE self

\* press_with without its test for WaitingForRelease.
press_with_while_waiting(self, amount) ==
    LET added == [self EXCEPT !.amount = saturating_add(self.amount, amount)]
        acc == CASE self.behavior = "Normal" -> added
                 [] self.behavior = "DetectRepeat" /\ self.state # "Pressed" -> added
                 [] OTHER -> self
    IN  [acc EXCEPT !.state = "Pressed"]

press_with(self, amount) ==
    IF self.state # "WaitingForRelease"
    THEN LET added == [self EXCEPT !.amount = saturating_add(self.amount, amount)]
             acc == CASE self.behavior = "Normal" -> added
                      [] self.behavior = "DetectRepeat" /\ self.state # "Pressed" -> added
                      [] OTHER -> self
         IN  [acc EXCEPT !.state = "Pressed"]
    ELSE self

press(self) == press_with(self, 1)

\* release clearing the amount as reset does.
release_clearing_amount(self) == [self EXCEPT !.state = "Released", !.amount = 0]

release(self) == [self EXCEPT !.state = "Released"]

tap(self) == release(press(self))

is_pressed(self) == self.amount # 0

reset(self) == [self EXCEPT !.state = "Released", !.amount = 0]

\* get_amount with the clearing of a released action's amount left out.
get_amount_without_clear(self) ==
    LET ret_val == self.amount
        after == IF ret_val # 0 /\ self.state # "Released"
                    /\ self.behavior = "DetectInitialPressOnly"
                 THEN [self EXCEPT !.state = "WaitingForRelease", !.amount = 0]
                 ELSE self
    IN  [ret |-> ret_val, self |-> after]

\* get_amount clearing the amount of a held action as well.
get_amount_clearing_held(self) ==
    LET ret_val == self.amount
        after == IF ret_val # 0
                 THEN IF self.behavior = "DetectInitialPressOnly" /\ self.state # "Released"
                      THEN [self EXCEPT !.state = "WaitingForRelease", !.amount = 0]
                      ELSE [self EXCEPT !.amount = 0]
                 ELSE self
    IN  [ret |-> ret_val, self |-> after]

\* get_amount making a held action of any behavior wait for its release.
get_amount_waiting_for_any_behavior(self) ==
    LET ret_val == self.amount
        after == IF ret_val # 0
                 THEN IF self.state = "Released"
                      THEN [self EXCEPT !.amount = 0]
                      ELSE [self EXCEPT !.state = "WaitingForRelease", !.amount = 0]
                 ELSE self
    IN  [ret |-> ret_val, self |-> after]

\* get_amount returns ret_val and mutates self: both are given, as a record.
get_amount(self) ==
    LET ret_val == self.amount
        after == IF ret_val # 0
                 THEN IF self.state = "Released"
                      THEN [self EXCEPT !.amount = 0]
                      ELSE IF self.behavior = "DetectInitialPressOnly"
                           THEN [self EXCEPT !.state = "WaitingForRelease", !.amount = 0]
                           ELSE self
                 ELSE self
    IN  [ret |-> ret_val, self |-> after]

\* The body of App::process_input_actions on the action it reads: the action after it.
consume(self) == IF is_pressed(self) THEN get_amount(self).self ELSE self

(***************************************************************************)
(* SpecAction: calls on one InputAction, made through its handle           *)
(***************************************************************************)
ActionIds == {"a1", "a2"}
Target == "a1"
\* Amounts given to press_with: small ones and the two ends of the i32 range.
PressAmounts == {1, 2, 3, I32Max, I32Min}

\* One entry of hist: the call, its argument and result, and the action after it.
Entry(op, arg, ret, self) ==
    [op |-> op, arg |-> arg, ret |-> ret, state |-> self.state, amount |-> self.amount]

\* KeyActionMap: a HashMap from key code to a shared action, as a function on its keys.
EmptyMap == [k \in {} |-> "a1"]
Insert(map, key, action) == [k \in DOMAIN map \cup {key} |-> IF k = key THEN action ELSE map[k]]
Remove(map, key) == [k \in DOMAIN map \ {key} |-> map[k]]
Values(map) == {map[k] : k \in DOMAIN map}

ManagerIdle ==
    /\ key_actions = EmptyMap
    /\ pressed_keys = EmptyMap
    /\ last = [op |-> "new", key |-> "none", action |-> "none", held |-> {}]

\* egui::util::History::new(length_range, max_age): no sample yet.
History_new(min_len, max_len, max_age) ==
    [min_len |-> min_len, max_len |-> max_len, max_age |-> max_age, values |-> <<>>]

HistoryIdle ==
    /\ frame_times = History_new(0, 0, 0)
    /\ newest = -1
    /\ evicted = -1

\* The main loop is not running.
LoopIdle ==
    /\ pc = "idle"
    /\ run = [before_ticks |-> 0, end_ticks |-> 0, over_sleep_ticks |-> 0, num_delays |-> 0,
              excess_ticks |-> 0, skips |-> 0, last_stats_update |-> 0]
    /\ clock = 0
    /\ env = [events |-> {}, max_batch |-> 0, max_read |-> 0, max_step |-> 0,
              monotonic |-> TRUE, history |-> FALSE]
    /\ polled = [wants |-> FALSE, batch |-> <<>>, calls |-> <<>>]
    /\ obs = [trace |-> <<>>, after_ticks |-> 0, proc_ticks |-> 0, frame_duration |-> 0,
              over0 |-> 0, excess0 |-> 0, fault |-> "none"]

InitAction ==
    /\ LoopIdle
    /\ \E b \in InputActionBehavior :
           actions = [a \in ActionIds |-> InputAction(IF a = Target THEN b ELSE "DetectRepeat")]
    /\ hist = <<>>
    /\ ManagerIdle
    /\ HistoryIdle

\* The calls a behaviour may make: MaxCalls on a new action, MaxGivenCalls on a given one
\* (whose first entry of hist is the action as given).
CallBudget ==
    IF hist # <<>> /\ hist[1].op = "given" THEN 1 + MaxGivenCalls ELSE MaxCalls

Call(op, arg, ret, self) ==
    /\ Len(hist) < CallBudget
    /\ actions' = [actions EXCEPT ![Target] = self]
    /\ hist' = Append(hist, Entry(op, arg, ret, self))
    /\ UNCHANGED <<key_actions, pressed_keys, last, frame_times, newest, evicted, loop_vars>>

Call_press_with ==
    \E amount \in PressAmounts :
        Call("press_with", amount, 0, press_with(actions[Target], amount))

Call_release == Call("release", 0, 0, release(actions[Target]))

Call_tap == Call("tap", 0, 0, tap(actions[Target]))

Call_reset == Call("reset", 0, 0, reset(actions[Target]))

Call_get_amount ==
    LET r == get_amount(actions[Target])
    IN  Call("get_amount", 0, r.ret, r.self)

NextAction ==
    \/ Call_press_with
    \/ Call_release
    \/ Call_tap
    \/ Call_reset
    \/ Call_get_amount

SpecAction == InitAction /\ [][NextAction]_vars

(***************************************************************************)
(* SpecAnyAction: the same calls, made on an action given in any state,    *)
(* of any behavior and with any of AnyAmounts as its amount: the methods   *)
(* as functions of self.  hist[1] is the action as given.                  *)
(***************************************************************************)
AnyAmounts == {0, 1, 0 - 1, I32Max, I32Min}

InitAnyAction ==
    /\ LoopIdle
    /\ \E b \in InputActionBehavior, s \in InputActionState, amount \in AnyAmounts :
           LET self == [behavior |-> b, state |-> s, amount |-> amount]
           IN  /\ actions = [a \in ActionIds |->
                                IF a = Target THEN self ELSE InputAction("DetectRepeat")]
               /\ hist = <<Entry("given", 0, 0, self)>>
    /\ ManagerIdle
    /\ HistoryIdle

SpecAnyAction == InitAnyAction /\ [][NextAction]_vars

(***************************************************************************)
(* Reading hist                                                            *)
(***************************************************************************)
Behavior == actions[Target].behavior

\* The action before call i (it is built Released with amount 0).
StateBefore(i) == IF i = 1 THEN "Released" ELSE hist[i - 1].state
AmountBefore(i) == IF i = 1 THEN 0 ELSE hist[i - 1].amount

\* After call i (i = 0: after construction) the action is Released with amount 0.
FreshAfter(i) == StateBefore(i + 1) = "Released" /\ AmountBefore(i + 1) = 0

\* Calls i..j are all press_with calls.
AllPresses(i, j) == \A q \in i..j : hist[q].op = "press_with"

\* x + y is an i32.
Fits(x, y) == ~(y > 0 /\ x > I32Max - y) /\ ~(y < 0 /\ x < I32Min - y)

\* The sum acc + hist[i].arg + ... + hist[j].arg, and whether every partial sum is an i32.
RECURSIVE SumArgs(_, _, _)
SumArgs(i, j, acc) ==
    IF i > j THEN [fits |-> TRUE, sum |-> acc]
    ELSE IF Fits(acc, hist[i].arg) THEN SumArgs(i + 1, j, acc + hist[i].arg)
    ELSE [fits |-> FALSE, sum |-> 0]

\* The action obtained by making the calls of h, in order, on a new action of behavior b.
ApplyCall(self, e) ==
    CASE e.op = "press_with" -> press_with(self, e.arg)
      [] e.op = "release" -> release(self)
      [] e.op = "tap" -> tap(self)
      [] e.op = "reset" -> reset(self)
      [] e.op = "get_amount" -> get_amount(self).self

RECURSIVE Replay(_, _)
Replay(b, h) ==
    IF h = <<>> THEN InputAction(b)
    ELSE ApplyCall(Replay(b, SubSeq(h, 1, Len(h) - 1)), h[Len(h)])

(***************************************************************************)
(* C1. Behavior Normal: from Released with amount 0, press_with calls with *)
(* no release and no read in between make the next get_amount() return the *)
(* sum of their amounts whenever no partial sum leaves the i32 range (N    *)
(* press() calls give N, press_with(3) then press_with(2) gives 5); a sum  *)
(* a + b of two amounts that is no i32 is returned as the end of the range *)
(* it passed.                                                              *)
(***************************************************************************)
\* Calls i+1..n-1 are presses made from Released/0 and call n reads them.
PressesThenRead(i, n) ==
    /\ hist[n].op = "get_amount"
    /\ FreshAfter(i)
    /\ AllPresses(i + 1, n - 1)

C1_NormalAccumulates ==
    Behavior = "Normal" =>
        \A n \in 1..Len(hist) : \A i \in 0..(n - 1) :
            PressesThenRead(i, n) =>
                /\ SumArgs(i + 1, n - 1, 0).fits =>
                       hist[n].ret = SumArgs(i + 1, n - 1, 0).sum
                /\ (n = i + 3 /\ ~Fits(hist[i + 1].arg, hist[i + 2].arg)) =>
                       hist[n].ret = IF hist[i + 2].arg > 0 THEN I32Max ELSE I32Min

C1_Witness ==
    /\ Behavior = "Normal"
    /\ Len(hist) = 3
    /\ hist[1].op = "press_with" /\ hist[1].arg = 3
    /\ hist[2].op = "press_with" /\ hist[2].arg = 2
    /\ hist[3].op = "get_amount" /\ hist[3].ret = 5

\* C1 as first stated: N press() calls give N, and press_with(a) then press_with(b)
\* gives a + b (stated as ret - a = b, which stays inside the i32 range) for every
\* a and b.
C1_AnyTwoAmountsAdd ==
    Behavior = "Normal" =>
        \A n \in 1..Len(hist) : \A i \in 0..(n - 1) :
            PressesThenRead(i, n) =>
                /\ (\A q \in (i + 1)..(n - 1) : hist[q].arg = 1) => hist[n].ret = n - 1 - i
                /\ n = i + 3 => hist[n].ret - hist[i + 1].arg = hist[i + 2].arg

(***************************************************************************)
(* C2. Behavior DetectRepeat: from Released with amount 0, N >= 1 press    *)
(* calls with no release in between leave the amount of the first press   *)
(* alone: N press() calls produce amount 1, not N.                         *)
(***************************************************************************)
C2_DetectRepeatFirstPressOnly ==
    Behavior = "DetectRepeat" =>
        \A n \in 1..Len(hist) : \A i \in 0..(n - 1) :
            (FreshAfter(i) /\ AllPresses(i + 1, n))
            => /\ hist[n].amount = hist[i + 1].arg
               /\ hist[n].state = "Pressed"

C2_Witness ==
    /\ Behavior = "DetectRepeat"
    /\ Len(hist) = 3
    /\ AllPresses(1, 3)
    /\ \A q \in 1..3 : hist[q].arg = 1
    /\ actions[Target].amount = 1

(***************************************************************************)
(* C3. Behavior DetectInitialPressOnly: a get_amount() made while the      *)
(* action is Pressed (pressed, not yet read, still held) returns a nonzero *)
(* value; after such a read every get_amount() returns 0 until a release   *)
(* and then a new press have been made.                                    *)
(***************************************************************************)
ReleasesAction(e) == e.op \in {"release", "reset", "tap"}
PressesAction(e) == e.op \in {"press_with", "tap"}

\* Between calls m and n (exclusive) a release is followed by a new press.
ReleasedAndPressedAgain(m, n) ==
    \E i \in (m + 1)..(n - 1) : \E j \in (i + 1)..(n - 1) :
        ReleasesAction(hist[i]) /\ PressesAction(hist[j])

\* Call m is a read of a held action that returned its value.
HeldRead(m) ==
    hist[m].op = "get_amount" /\ hist[m].ret # 0 /\ StateBefore(m) = "Pressed"

C3_InitialPressReportedOnce ==
    Behavior = "DetectInitialPressOnly" =>
        \A n \in 1..Len(hist) :
            hist[n].op = "get_amount" =>
                /\ StateBefore(n) = "Pressed" => hist[n].ret # 0
                /\ \A m \in 1..(n - 1) :
                       (HeldRead(m) /\ ~ReleasedAndPressedAgain(m, n)) => hist[n].ret = 0

(***************************************************************************)
(* C4. Every behavior: tap() on an action that is Released with amount 0   *)
(* leaves it Released, the next get_amount() returns 1 and the             *)
(* get_amount() after that returns 0.                                      *)
(***************************************************************************)
C4_TapYieldsOneUnit ==
    \A n \in 1..Len(hist) :
        (hist[n].op = "tap" /\ FreshAfter(n - 1)) =>
            /\ hist[n].state = "Released"
            /\ (n + 1 <= Len(hist) /\ hist[n + 1].op = "get_amount") =>
                   /\ hist[n + 1].ret = 1
                   /\ (n + 2 <= Len(hist) /\ hist[n + 2].op = "get_amount") =>
                          hist[n + 2].ret = 0

(***************************************************************************)
(* C5. After any sequence of press_with and release calls made on a new    *)
(* action with no read in between, a DetectInitialPressOnly action has the *)
(* amount and the state a DetectRepeat action has after the same calls.    *)
(***************************************************************************)
C5_InitialPressAccumulatesLikeRepeat ==
    (/\ Behavior = "DetectInitialPressOnly"
     /\ \A q \in 1..Len(hist) : hist[q].op \in {"press_with", "release"})
    => /\ actions[Target].amount = Replay("DetectRepeat", hist).amount
       /\ actions[Target].state = Replay("DetectRepeat", hist).state

(***************************************************************************)
(* InputManager                                            input_manager.rs *)
(* SpecManager: InputManager calls interleaved with the per-tick consumer  *)
(***************************************************************************)
Keys == {"K1", "K2"}

ActionIdle == hist = <<>>

InitManager ==
    /\ LoopIdle
    /\ actions \in [ActionIds -> {InputAction(b) : b \in InputActionBehavior}]
    /\ ActionIdle
    /\ ManagerIdle
    /\ HistoryIdle

\* What a call leaves in last: its name, its key, the action it was given, the actions held
\* when it was made.
MadeWith(op, key, action) ==
    last' = [op |-> op, key |-> key, action |-> action, held |-> Values(pressed_keys)]

Made(op, key) == MadeWith(op, key, "none")

\* map_to_key leaving an earlier mapping of the key in place.
map_to_key_keeping_earlier ==
    \E key \in Keys, action \in ActionIds :
        /\ key_actions' = IF key \in DOMAIN key_actions THEN key_actions
                          ELSE Insert(key_actions, key, action)
        /\ MadeWith("map_to_key", key, action)
        /\ UNCHANGED <<actions, pressed_keys, hist, frame_times, newest, evicted, loop_vars>>

map_to_key ==
    \E key \in Keys, action \in ActionIds :
        /\ key_actions' = Insert(key_actions, key, action)
        /\ MadeWith("map_to_key", key, action)
        /\ UNCHANGED <<actions, pressed_keys, hist, frame_times, newest, evicted, loop_vars>>

\* The InputManager and the actions its maps point to, as one value.
Manager == [key_actions |-> key_actions, pressed_keys |-> pressed_keys, actions |-> actions]

\* InputManager::key_pressed on m: m after the call.
InputManager_key_pressed(m, key) ==
    IF key \in DOMAIN m.key_actions
    THEN LET action == m.key_actions[key]
         IN  [m EXCEPT !.actions = [@ EXCEPT ![action] = press(@)],
                       !.pressed_keys = Insert(@, key, action)]
    ELSE m

\* key_released leaving the key in pressed_keys.
InputManager_key_released_keeping_key(m, key) ==
    IF key \in DOMAIN m.key_actions
    THEN [m EXCEPT !.actions = [@ EXCEPT ![m.key_actions[key]] = release(@)]]
    ELSE m

\* key_released releasing the action only when no other held key is mapped to it.
InputManager_key_released_unless_shared(m, key) ==
    IF key \in DOMAIN m.key_actions
    THEN LET action == m.key_actions[key]
             shared == \E other \in DOMAIN m.pressed_keys :
                           other # key /\ m.pressed_keys[other] = action
         IN  [m EXCEPT !.actions = IF shared THEN @ ELSE [@ EXCEPT ![action] = release(@)],
                       !.pressed_keys = Remove(@, key)]
    ELSE m

\* InputManager::key_released on m: m after the call.
InputManager_key_released(m, key) ==
    IF key \in DOMAIN m.key_actions
    THEN LET action == m.key_actions[key]
         IN  [m EXCEPT !.actions = [@ EXCEPT ![action] = release(@)],
                       !.pressed_keys = Remove(@, key)]
    ELSE m

\* InputManager::release_all on m: m after the call. The loop releases every value of
\* pressed_keys; release is idempotent, so neither the HashMap's iteration order nor an
\* action held through two keys changes the result.
InputManager_release_all(m) ==
    [m EXCEPT !.actions = [a \in ActionIds |->
                              IF a \in Values(m.pressed_keys) THEN release(m.actions[a])
                              ELSE m.actions[a]],
              !.pressed_keys = EmptyMap]

key_pressed ==
    \E key \in Keys :
        /\ key \in DOMAIN key_actions => actions[key_actions[key]].amount < MaxAmount
        /\ actions' = InputManager_key_pressed(Manager, key).actions
        /\ pressed_keys' = InputManager_key_pressed(Manager, key).pressed_keys
        /\ Made("key_pressed", key)
        /\ UNCHANGED <<key_actions, hist, frame_times, newest, evicted, loop_vars>>

key_released ==
    \E key \in Keys :
        /\ actions' = InputManager_key_released(Manager, key).actions
        /\ pressed_keys' = InputManager_key_released(Manager, key).pressed_keys
        /\ Made("key_released", key)
        /\ UNCHANGED <<key_actions, hist, frame_times, newest, evicted, loop_vars>>

\* release_all with the final pressed_keys.clear() left out.
release_all_without_clear ==
    /\ actions' = InputManager_release_all(Manager).actions
    /\ Made("release_all", "none")
    /\ UNCHANGED <<key_actions, pressed_keys, hist, frame_times, newest, evicted, loop_vars>>

release_all ==
    /\ actions' = InputManager_release_all(Manager).actions
    /\ pressed_keys' = InputManager_release_all(Manager).pressed_keys
    /\ Made("release_all", "none")
    /\ UNCHANGED <<key_actions, hist, frame_times, newest, evicted, loop_vars>>

\* The per-tick consumer, on the caller's own handle of an action.
process_input_actions ==
    \E a \in ActionIds :
        /\ actions' = [actions EXCEPT ![a] = consume(actions[a])]
        /\ Made("process_input_actions", "none")
        /\ UNCHANGED <<key_actions, pressed_keys, hist, frame_times, newest, evicted, loop_vars>>

\* InputManager::get_key_action: the handle of the action mapped to key, or none.
get_key_action(key) == IF key \in DOMAIN key_actions THEN key_actions[key] ELSE "none"

NextManager ==
    \/ map_to_key
    \/ key_pressed
    \/ key_released
    \/ release_all
    \/ process_input_actions

SpecManager == InitManager /\ [][NextManager]_vars

(***************************************************************************)
(* C6. After release_all(), from any state key_pressed and key_released    *)
(* calls lead to, pressed_keys is empty and every action that was held     *)
(* just before the call is Released.                                       *)
(***************************************************************************)
C6_ReleaseAllReleasesHeld ==
    last.op = "release_all" =>
        /\ DOMAIN pressed_keys = {}
        /\ \A a \in last.held : actions[a].state = "Released"

C6_Witness ==
    /\ last.op = "release_all"
    /\ last.held = ActionIds
    /\ DOMAIN pressed_keys = {}

(***************************************************************************)
(* C7. After release_all(), every action that was held just before the     *)
(* call has amount 0, so is_pressed() is false for it with no read made.   *)
(***************************************************************************)
C7_ReleaseAllClearsAmount ==
    last.op = "release_all" =>
        \A a \in last.held : actions[a].amount = 0 /\ ~is_pressed(actions[a])

(***************************************************************************)
(* C8. In every state map_to_key, key_pressed, key_released and            *)
(* release_all lead to, every key of pressed_keys is a key of key_actions  *)
(* and both maps hold the same action for it, also when the key was mapped *)
(* to another action while it was held.                                    *)
(***************************************************************************)
C8_HeldKeysAgreeWithMapping ==
    \A k \in DOMAIN pressed_keys :
        k \in DOMAIN key_actions /\ key_actions[k] = pressed_keys[k]

(***************************************************************************)
(* FrameHistory                                            frame_history.rs *)
(*                                                                         *)
(* Timestamps and durations are whole numbers of clock units; a statistic  *)
(* is the exact quotient num / den of the f32 division the code makes.     *)
(***************************************************************************)
Some(x) == [some |-> TRUE, val |-> x]
None == [some |-> FALSE, val |-> 0]
unwrap_or_default(opt) == IF opt.some THEN opt.val ELSE 0

Quot(n, d) == [num |-> n, den |-> d]
Zero == Quot(0, 1)

\* History::flush(now): drop from the front beyond max_len, then, while more than
\* min_len samples are left, drop the front while it is older than max_age.
RECURSIVE DropOld(_, _, _)
DropOld(values, min_len, limit) ==
    IF Len(values) > min_len /\ values[1].t < limit
    THEN DropOld(Tail(values), min_len, limit)
    ELSE values

flush(h, now) ==
    LET n == Len(h.values)
        capped == IF n > h.max_len THEN SubSeq(h.values, n - h.max_len + 1, n) ELSE h.values
    IN  [h EXCEPT !.values = DropOld(capped, h.min_len, now - h.max_age)]

\* History::add(now, value): push_back, then flush(now).
add(h, now, value) ==
    flush([h EXCEPT !.values = Append(h.values, [t |-> now, v |-> value])], now)

\* History::latest_mut(), assigned through: the newest sample's value is overwritten.
set_latest(h, value) ==
    IF h.values = <<>> THEN h
    ELSE [h EXCEPT !.values[Len(h.values)].v = value]

RECURSIVE SumValues(_)
SumValues(values) == IF values = <<>> THEN 0 ELSE values[1].v + SumValues(Tail(values))

\* History::average(): the sum over the count, None when there is no sample.
average(h) ==
    IF Len(h.values) > 0 THEN Some(Quot(SumValues(h.values), Len(h.values))) ELSE None

\* History::mean_time_interval(): (last.t - first.t) / (n - 1), None when n < 2.
mean_time_interval(h) ==
    LET n == Len(h.values)
    IN  IF n >= 2 THEN Some(Quot(h.values[n].t - h.values[1].t, n - 1)) ELSE None

\* FrameHistory::new: History::new(0..max_len, max_age).
FrameHistory_new_min_len_is_max_len(max_len, max_age) == History_new(max_len, max_len, max_age)

FrameHistory_new(max_len, max_age) == History_new(0, max_len, max_age)

\* on_new_frame without the write through latest_mut().
on_new_frame_append_only(h, now, maybe_previous_frame_time) ==
    add(h, now, unwrap_or_default(maybe_previous_frame_time))

on_new_frame(h, now, maybe_previous_frame_time) ==
    LET previous_frame_time == unwrap_or_default(maybe_previous_frame_time)
    IN  add(set_latest(h, previous_frame_time), now, previous_frame_time)

mean_frame_time(h) ==
    LET avg == average(h)
    IN  IF avg.some THEN avg.val ELSE Zero

\* fps with the test of mean_interval left out.
fps_without_guard(h) ==
    LET opt == mean_time_interval(h)
        mean_interval == IF opt.some THEN opt.val ELSE Zero
    IN  Quot(mean_interval.den, mean_interval.num)

fps(h) ==
    LET opt == mean_time_interval(h)
        mean_interval == IF opt.some THEN opt.val ELSE Zero
    IN  IF mean_interval.num > 0
        THEN Quot(mean_interval.den, mean_interval.num)
        ELSE Zero

(***************************************************************************)
(* SpecHistory: on_new_frame calls with the timestamps of a monotonic      *)
(* clock                                                                   *)
(***************************************************************************)
FrameTimes == {None, Some(1), Some(2)}

InitHistory ==
    /\ \E max_len \in 0..MaxLenBound, max_age \in 1..MaxAgeBound :
           frame_times = FrameHistory_new(max_len, max_age)
    /\ newest = -1
    /\ evicted = -1
    /\ actions = [a \in ActionIds |-> InputAction("DetectRepeat")]
    /\ ActionIdle
    /\ ManagerIdle
    /\ LoopIdle

\* The timestamps of the samples that before holds and after does not hold any more
\* (after is a suffix of before).
Dropped(before, after) == {before[i].t : i \in 1..(Len(before) - Len(after))}

SetMax(S) == CHOOSE x \in S : \A y \in S : y <= x

Call_on_new_frame ==
    \E now \in 0..MaxTime, maybe_previous_frame_time \in FrameTimes :
        /\ now >= newest
        /\ frame_times' = on_new_frame(frame_times, now, maybe_previous_frame_time)
        /\ newest' = now
        /\ evicted' = SetMax({evicted} \cup
                             Dropped(Append(frame_times.values, [t |-> now, v |-> 0]),
                                     frame_times'.values))
        /\ hist' = IF evicted' = -1
                   THEN Append(hist, [op |-> "on_new_frame", now |-> now,
                                      arg |-> maybe_previous_frame_time])
                   ELSE <<>>
        /\ UNCHANGED <<actions, key_actions, pressed_keys, last, loop_vars>>

NextHistory == Call_on_new_frame

SpecHistory == InitHistory /\ [][NextHistory]_vars

(***************************************************************************)
(* C9. After every on_new_frame call of a sequence with non-decreasing     *)
(* timestamps the history holds at most max_len samples, none older than   *)
(* max_age relative to the newest timestamp, and no retained sample is     *)
(* older than a sample that was dropped.                                   *)
(***************************************************************************)
Retained == {frame_times.values[i] : i \in 1..Len(frame_times.values)}

C9_WindowBounded ==
    /\ Len(frame_times.values) <= frame_times.max_len
    /\ \A s \in Retained : newest - s.t <= frame_times.max_age
    /\ \A s \in Retained : s.t >= evicted

C9_Witness ==
    /\ evicted >= 0
    /\ Len(frame_times.values) >= 2
    /\ Len(frame_times.values) < frame_times.max_len
    /\ newest - frame_times.values[1].t = frame_times.max_age

(***************************************************************************)
(* C10. The statistics are always defined: mean_frame_time() is 0 when no  *)
(* sample is retained; fps() is 0 when fewer than 2 samples are retained   *)
(* or when the mean interval between the sample timestamps is 0.           *)
(***************************************************************************)
Defined(q) == q.den > 0

MeanIntervalIsZero ==
    /\ Len(frame_times.values) >= 2
    /\ frame_times.values[Len(frame_times.values)].t = frame_times.values[1].t

C10_StatisticsDefined ==
    /\ Defined(mean_frame_time(frame_times))
    /\ Defined(fps(frame_times))
    /\ Len(frame_times.values) = 0 => mean_frame_time(frame_times) = Zero
    /\ Len(frame_times.values) < 2 => fps(frame_times) = Zero
    /\ MeanIntervalIsZero => fps(frame_times) = Zero

C10_Witness ==
    /\ MeanIntervalIsZero
    /\ fps(frame_times) = Zero
    /\ mean_frame_time(frame_times) # Zero

(***************************************************************************)
(* C18. get_amount() returns the amount the action had before the call;    *)
(* a read made while the action is Released leaves amount 0, so the read   *)
(* after it returns 0; the per-tick consumer process_input_actions, made   *)
(* on a Released action, leaves amount 0 as well.                          *)
(***************************************************************************)
C18_ReadWhileReleasedClears ==
    /\ \A n \in 1..Len(hist) :
           hist[n].op = "get_amount" =>
               /\ hist[n].ret = AmountBefore(n)
               /\ StateBefore(n) = "Released" =>
                      /\ hist[n].amount = 0
                      /\ hist[n].state = "Released"
                      /\ (n < Len(hist) /\ hist[n + 1].op = "get_amount") =>
                             hist[n + 1].ret = 0
    /\ actions[Target].state = "Released" =>
           /\ consume(actions[Target]).amount = 0
           /\ consume(actions[Target]).state = "Released"

C18_Witness ==
    /\ Len(hist) >= 3
    /\ hist[Len(hist) - 1].op = "get_amount"
    /\ StateBefore(Len(hist) - 1) = "Released"
    /\ hist[Len(hist) - 1].ret # 0
    /\ hist[Len(hist)].op = "get_amount"
    /\ hist[Len(hist)].ret = 0

(***************************************************************************)
(* C19. Every behavior, presses of positive amount: a press made between   *)
(* two reads (on an action that is not waiting for its release) makes the  *)
(* next read return a nonzero value, also when the release came before the *)
(* read; and once a released action has been read, later reads return 0    *)
(* until a new press is made.                                              *)
(***************************************************************************)
\* Calls m+1..n-1 come from the event queue: presses, releases, taps.
OnlyEdges(m, n) ==
    \A q \in (m + 1)..(n - 1) : hist[q].op \in {"press_with", "release", "tap"}

\* Call p is a press edge the action takes: it is not waiting for a release.
PressEdge(p) == PressesAction(hist[p]) /\ StateBefore(p) # "WaitingForRelease"

\* Call m is the read before call n (m = 0: there is none).
PreviousRead(m, n) ==
    /\ m = 0 \/ hist[m].op = "get_amount"
    /\ \A q \in (m + 1)..(n - 1) : hist[q].op # "get_amount"

PositivePresses == \A q \in 1..Len(hist) : hist[q].op = "press_with" => hist[q].arg > 0

C19_NoEdgeLostOrDuplicated ==
    PositivePresses =>
        \A n \in 1..Len(hist) :
            hist[n].op = "get_amount" =>
                /\ \A m \in 0..(n - 1) :
                       (/\ PreviousRead(m, n)
                        /\ OnlyEdges(m, n)
                        /\ \E p \in (m + 1)..(n - 1) : PressEdge(p))
                       => hist[n].ret # 0
                /\ \A m \in 1..(n - 1) :
                       (/\ hist[m].op = "get_amount"
                        /\ StateBefore(m) = "Released"
                        /\ \A q \in (m + 1)..(n - 1) : ~PressesAction(hist[q]))
                       => hist[n].ret = 0

(***************************************************************************)
(* App::run and App::handle_events                              app/mod.rs *)
(* SpecLoop:     the main loop under a monotonic counter, any stall        *)
(* SpecEvents:   the main loop with every batch of events, short stalls    *)
(* SpecAnyClock: the main loop under a counter that may step back          *)
(* SpecFrames:   the main loop from its start, with the statistics window  *)
(* SpecDrain:    the main loop that runs on (weak fairness of its step)    *)
(*                                                                         *)
(* Counter readings are kept relative to before_ticks: when the loop sets  *)
(* before_ticks = end_ticks, every stored reading is shifted by end_ticks. *)
(* Ticks are integers; the code holds frame_ticks, proc_ticks, sleep_ticks,*)
(* over_sleep_ticks and excess_ticks as f64.  frame_skips is only written  *)
(* by the code and is left out.                                            *)
(***************************************************************************)
MAX_FRAME_SKIPS == 5
NUM_DELAYS_PER_YIELD == 16
FrameHistoryMaxLen == 300   \* FrameHistory::new(300, 1.0)

FrameTicks == 3      \* counter ticks in one frame period
TargetFps == 2       \* cfg.target_fps
TicksPerMs == 2      \* counter ticks in one millisecond
MaxStep == 1         \* the longest time between two counter readings with no render between
MaxBatch == 2        \* events in one batch of poll_iter
MaxRunPeriods == 4   \* frame periods for which a run is followed in SpecFrames

\* The longest time from before_ticks to after_ticks: a stall one frame period longer than
\* the regular update and MAX_FRAME_SKIPS catch-up updates serve.
MaxElapsed == (MAX_FRAME_SKIPS + 2) * FrameTicks
MaxRunTicks == MaxRunPeriods * FrameTicks
MaxExcess == MaxElapsed
MinReading == 0 - 1

perf_frequency == FrameTicks * TargetFps
frame_ticks == perf_frequency \div TargetFps
stats_update_interval == perf_frequency \div 4
tick_to_msec(ticks) == ticks \div TicksPerMs

ActionA == "a1"      \* InputActionType::ActionA
KeycodeA == "K1"     \* Keycode::A, the one key init_input maps

\* sdl2 events, by what handle_events tells apart.
Event(type, key, own, win) == [type |-> type, key |-> key, own |-> own, win |-> win]
QuitEvent == Event("Quit", "none", FALSE, "none")
OtherEvent == Event("Other", "none", FALSE, "none")
KeyDown(key) == Event("KeyDown", key, FALSE, "none")
KeyUp(key) == Event("KeyUp", key, FALSE, "none")
WindowEvent(own, win) == Event("Window", "none", own, win)

AllEvents ==
    {QuitEvent, OtherEvent}
    \cup {KeyDown(k) : k \in Keys \cup {"Escape"}}
    \cup {KeyUp(k) : k \in Keys}
    \cup {WindowEvent(own, win) : own \in BOOLEAN, win \in {"Close", "SizeChanged", "Moved"}}

\* The batches poll_iter may yield.
Batches == UNION {[1..n -> env.events] : n \in 0..env.max_batch}

\* The readings get_performance_counter may give: under a monotonic counter none is earlier
\* than lo or than the reading before; hi is the latest one.
Readings(lo, hi) ==
    LET earliest == IF lo > clock THEN lo ELSE clock
    IN  IF env.monotonic
        THEN earliest..(IF hi > earliest THEN hi ELSE earliest)
        ELSE MinReading..hi

ManagerCall(op, key) == [op |-> op, key |-> key]

\* The match of handle_events with a last arm `_ => return EventOutcome::Quit`.
HandleEvent_quitting_on_others(st, ev, egui_wants_keyboard_input) ==
    IF ev.type = "Quit" \/ (ev.type = "KeyDown" /\ ev.key = "Escape")
    THEN [st EXCEPT !.outcome = "Quit"]
    ELSE IF ev.type = "Window" /\ ev.own
    THEN (IF ev.win = "Close" THEN [st EXCEPT !.outcome = "Quit"] ELSE st)
    ELSE IF ev.type = "KeyDown" /\ ~egui_wants_keyboard_input
    THEN [st EXCEPT !.m = InputManager_key_pressed(@, ev.key),
                    !.calls = Append(@, ManagerCall("key_pressed", ev.key))]
    ELSE IF ev.type = "KeyUp" /\ ~egui_wants_keyboard_input
    THEN [st EXCEPT !.m = InputManager_key_released(@, ev.key),
                    !.calls = Append(@, ManagerCall("key_released", ev.key))]
    ELSE IF ev.type = "KeyUp"
    THEN st
    ELSE [st EXCEPT !.outcome = "Quit"]

\* The match of handle_events on one event, egui_wants_keyboard_input given;
\* st = [m, calls, outcome].  SizeChanged reconfigures the surface, which is not part of
\* the state here.
HandleEvent(st, ev, egui_wants_keyboard_input) ==
    IF ev.type = "Quit" \/ (ev.type = "KeyDown" /\ ev.key = "Escape")
    THEN [st EXCEPT !.outcome = "Quit"]
    ELSE IF ev.type = "Window" /\ ev.own
    THEN (IF ev.win = "Close" THEN [st EXCEPT !.outcome = "Quit"] ELSE st)
    ELSE IF ev.type = "KeyDown" /\ ~egui_wants_keyboard_input
    THEN [st EXCEPT !.m = InputManager_key_pressed(@, ev.key),
                    !.calls = Append(@, ManagerCall("key_pressed", ev.key))]
    ELSE IF ev.type = "KeyUp" /\ ~egui_wants_keyboard_input
    THEN [st EXCEPT !.m = InputManager_key_released(@, ev.key),
                    !.calls = Append(@, ManagerCall("key_released", ev.key))]
    ELSE st

\* The for loop of handle_events if it went on through the batch after a Quit outcome.
RECURSIVE poll_iter_through_quit(_, _, _, _)
poll_iter_through_quit(st, batch, i, egui_wants_keyboard_input) ==
    IF i > Len(batch)
    THEN st
    ELSE poll_iter_through_quit(HandleEvent(st, batch[i], egui_wants_keyboard_input), batch,
                                i + 1, egui_wants_keyboard_input)

\* The for loop of handle_events from event i of the batch on; a Quit outcome returns.
RECURSIVE poll_iter(_, _, _, _)
poll_iter(st, batch, i, egui_wants_keyboard_input) ==
    IF i > Len(batch) \/ st.outcome = "Quit"
    THEN st
    ELSE poll_iter(HandleEvent(st, batch[i], egui_wants_keyboard_input), batch, i + 1,
                   egui_wants_keyboard_input)

\* handle_events going to its loop without looking at what egui wants.
before_events_without_release(m, egui_wants_keyboard_input) ==
    [m |-> m, calls |-> <<>>, outcome |-> "Continue"]

\* handle_events before its loop: release_all when egui wants the input.
before_events(m, egui_wants_keyboard_input) ==
    IF egui_wants_keyboard_input
    THEN [m |-> InputManager_release_all(m),
          calls |-> <<ManagerCall("release_all", "none")>>, outcome |-> "Continue"]
    ELSE [m |-> m, calls |-> <<>>, outcome |-> "Continue"]

Step(step, ok) == [step |-> step, ok |-> ok]

\* A loop that went on whatever the collaborator returned.
after_step_ignoring_failure(ok, next) == next

\* The ? operator on a collaborator's result: where the loop goes next.
after_step(ok, next) == IF ok THEN next ELSE "failed"

\* A u64 subtraction a - b with a < b: a panic in a build with overflow checks, a wrapped
\* difference in a build without.
Fault(site) ==
    /\ pc' \in {"panic", "wrapped"}
    /\ obs' = [obs EXCEPT !.fault = site]
    /\ UNCHANGED <<actions, pressed_keys, run, clock, polled>>

LoopStart(e) ==
    /\ pc = "handle_events"
    /\ run = [before_ticks |-> 0, end_ticks |-> 0, over_sleep_ticks |-> 0, num_delays |-> 0,
              excess_ticks |-> 0, skips |-> 0, last_stats_update |-> 0]
    /\ clock = 0
    /\ env = e
    /\ polled = [wants |-> FALSE, batch |-> <<>>, calls |-> <<>>]
    /\ obs = [trace |-> <<>>, after_ticks |-> 0, proc_ticks |-> 0, frame_duration |-> 0,
              over0 |-> 0, excess0 |-> 0, fault |-> "none"]
    /\ key_actions = Insert(EmptyMap, KeycodeA, ActionA)
    /\ pressed_keys = EmptyMap
    /\ actions = [a \in ActionIds |-> InputAction("DetectRepeat")]
    /\ last = [op |-> "new", key |-> "none", action |-> "none", held |-> {}]
    /\ ActionIdle
    /\ frame_times = FrameHistory_new(FrameHistoryMaxLen, perf_frequency)
    /\ newest = -1
    /\ evicted = -1

Outside == <<key_actions, env, hist, last, frame_times, newest, evicted>>

\* Step 1 of an iteration: handle_events; Quit breaks out of the loop.  A held DetectRepeat
\* action keeps its amount through the reads, so the presses are capped at MaxAmount.
handle_events ==
    /\ pc = "handle_events"
    /\ \E egui_wants_keyboard_input \in BOOLEAN, batch \in Batches :
           LET st == poll_iter(before_events(Manager, egui_wants_keyboard_input), batch, 1,
                               egui_wants_keyboard_input)
           IN  /\ st.m.actions[ActionA].amount <= MaxAmount
               /\ actions' = st.m.actions
               /\ pressed_keys' = st.m.pressed_keys
               /\ polled' = [wants |-> egui_wants_keyboard_input, batch |-> batch,
                             calls |-> st.calls]
               /\ pc' = IF st.outcome = "Quit" THEN "done" ELSE "show_ui"
    /\ obs' = [trace |-> <<Step("handle_events", TRUE)>>, after_ticks |-> 0, proc_ticks |-> 0,
               frame_duration |-> 0, over0 |-> run.over_sleep_ticks,
               excess0 |-> run.excess_ticks, fault |-> "none"]
    /\ UNCHANGED <<run, clock>>
    /\ UNCHANGED Outside

\* platform.update_time and gui.show_ui(&ctx)?; the batch is gone by now.
show_ui ==
    /\ pc = "show_ui"
    /\ \E ok \in BOOLEAN :
           /\ pc' = after_step(ok, "update")
           /\ obs' = [obs EXCEPT !.trace = Append(@, Step("show_ui", ok))]
    /\ polled' = [wants |-> FALSE, batch |-> <<>>, calls |-> <<>>]
    /\ UNCHANGED <<actions, pressed_keys, run, clock>>
    /\ UNCHANGED Outside

\* Whether last_stats_update moves to now.
stats_due(now) == now - run.last_stats_update >= stats_update_interval

\* The update closure: update_stats, then App::update (process_input_actions, then
\* engine.update(dt)?).  A catch-up update that succeeds is followed by the loop body's
\* excess_ticks -= frame_ticks; skips += 1.
update(step, next) ==
    \E now \in Readings(clock, clock + env.max_step), ok \in BOOLEAN :
        IF now < run.last_stats_update
        THEN Fault("now - last_stats_update")
        ELSE /\ clock' = now
             /\ run' = [run EXCEPT
                           !.last_stats_update = IF stats_due(now) THEN now ELSE @,
                           !.excess_ticks = IF ok /\ step = "catch_up" THEN @ - frame_ticks
                                            ELSE @,
                           !.skips = IF ok /\ step = "catch_up" THEN @ + 1 ELSE @]
             /\ actions' = [actions EXCEPT ![ActionA] = consume(@)]
             /\ pc' = after_step(ok, next)
             /\ obs' = [obs EXCEPT !.trace = Append(@, Step(step, ok))]
             /\ UNCHANGED <<pressed_keys, polled>>

regular_update ==
    /\ pc = "update"
    /\ update("update", "render")
    /\ UNCHANGED Outside

\* init_render()?, engine.render()?, gui.render()?, present(), gui.clean()?
render ==
    /\ pc = "render"
    /\ \E ok \in BOOLEAN :
           /\ pc' = after_step(ok, "pace")
           /\ obs' = [obs EXCEPT !.trace = Append(@, Step("render", ok))]
    /\ UNCHANGED <<actions, pressed_keys, run, clock, polled>>
    /\ UNCHANGED Outside

\* The difference of line 295 kept as it is.
over_sleep_unclamped(over_sleep_ticks) == over_sleep_ticks

\* if over_sleep_ticks < 0. { over_sleep_ticks = 0.; ... }
clamp_over_sleep(over_sleep_ticks) == IF over_sleep_ticks < 0 THEN 0 ELSE over_sleep_ticks

\* The on-schedule branch: sleep, read end_ticks, compute over_sleep_ticks.
on_schedule(after_ticks, proc_ticks) ==
    LET sleep_ticks == frame_ticks - proc_ticks
        sleep_time_ms == tick_to_msec(sleep_ticks)
        woken == after_ticks + sleep_time_ms * TicksPerMs
    IN  \E end_ticks \in Readings(woken, woken + env.max_step) :
            IF end_ticks < after_ticks
            THEN Fault("end_ticks - after_ticks")
            ELSE LET over_sleep_ticks == (end_ticks - after_ticks) - sleep_ticks
                 IN  /\ run' = [run EXCEPT
                                   !.end_ticks = end_ticks,
                                   !.over_sleep_ticks = clamp_over_sleep(over_sleep_ticks),
                                   !.num_delays = IF over_sleep_ticks < 0 THEN @ ELSE 0]
                     /\ pc' = IF over_sleep_ticks < 0 THEN "spin"
                              ELSE "update_frame_history"
                     /\ clock' = end_ticks
                     /\ obs' = [obs EXCEPT
                                   !.trace = Append(@, Step(IF sleep_time_ms > 0 THEN "sleep"
                                                            ELSE "no_sleep", TRUE)),
                                   !.after_ticks = after_ticks,
                                   !.proc_ticks = proc_ticks]
                     /\ UNCHANGED <<actions, pressed_keys, polled>>

\* What the behind-schedule branch would add to excess_ticks if it added all of proc_ticks.
behind_by_whole_proc_ticks(proc_ticks) == proc_ticks

\* excess_ticks += proc_ticks - frame_ticks
behind_by(proc_ticks) == proc_ticks - frame_ticks

\* The yield's test holding on every delay.
yield_on_every_delay(num_delays) == TRUE

\* if num_delays >= Self::NUM_DELAYS_PER_YIELD
yield_due(num_delays) == num_delays >= NUM_DELAYS_PER_YIELD

\* The behind-schedule branch: count the delay, yield on the 16th, add to excess_ticks.
behind_schedule(after_ticks, proc_ticks) ==
    \E end_ticks \in Readings(after_ticks, after_ticks + env.max_step) :
        LET delays == run.num_delays + 1
        IN  /\ run.excess_ticks + behind_by(proc_ticks) <= MaxExcess
            /\ run' = [run EXCEPT
                          !.num_delays = IF yield_due(delays) THEN 0
                                         ELSE delays,
                          !.over_sleep_ticks = 0,
                          !.excess_ticks = @ + behind_by(proc_ticks),
                          !.end_ticks = end_ticks]
            /\ pc' = "update_frame_history"
            /\ clock' = end_ticks
            /\ obs' = [obs EXCEPT
                          !.trace = Append(@, Step(IF yield_due(delays)
                                                   THEN "yield" ELSE "no_yield", TRUE)),
                          !.after_ticks = after_ticks,
                          !.proc_ticks = proc_ticks]
            /\ UNCHANGED <<actions, pressed_keys, polled>>

\* proc_ticks without the over_sleep_ticks of the iteration before.
proc_ticks_without_over_sleep(after_ticks, before_ticks, over_sleep_ticks) ==
    after_ticks - before_ticks

\* let proc_ticks = (after_ticks - before_ticks) as f64 + over_sleep_ticks
proc_ticks_of(after_ticks, before_ticks, over_sleep_ticks) ==
    (after_ticks - before_ticks) + over_sleep_ticks

\* Lines 283-315 up to the spin loop: read after_ticks, compute proc_ticks, take a branch.
pace ==
    /\ pc = "pace"
    /\ \E after_ticks \in Readings(clock, env.max_read) :
           IF after_ticks < run.before_ticks
           THEN Fault("after_ticks - before_ticks")
           ELSE LET proc_ticks == proc_ticks_of(after_ticks, run.before_ticks,
                                                run.over_sleep_ticks)
                IN  IF frame_ticks >= proc_ticks
                    THEN on_schedule(after_ticks, proc_ticks)
                    ELSE behind_schedule(after_ticks, proc_ticks)
    /\ UNCHANGED Outside

\* The spin loop's test without the wait: the loop is left at once.
period_over_at_once(end_ticks, before_ticks) == TRUE

\* if (end_ticks - before_ticks) as f64 >= frame_ticks { break; }
period_over(end_ticks, before_ticks) == end_ticks - before_ticks >= frame_ticks

\* One turn of the loop that waits, after an early wake, until the frame period is over.
spin ==
    /\ pc = "spin"
    /\ IF run.end_ticks < run.before_ticks
       THEN Fault("end_ticks - before_ticks")
       ELSE IF period_over(run.end_ticks, run.before_ticks)
       THEN /\ pc' = "update_frame_history"
            /\ run' = [run EXCEPT !.num_delays = 0]
            /\ UNCHANGED <<actions, pressed_keys, clock, polled, obs>>
       ELSE \E end_ticks \in Readings(clock, env.max_read) :
                /\ run' = [run EXCEPT !.end_ticks = end_ticks]
                /\ clock' = end_ticks
                /\ UNCHANGED <<actions, pressed_keys, pc, polled, obs>>
    /\ UNCHANGED Outside

\* The closure update_frame_history recording the nominal frame period.
App_update_frame_history_nominal(h, before_ticks, end_ticks) ==
    on_new_frame(h, end_ticks, Some(frame_ticks))

\* The closure update_frame_history(before_ticks, end_ticks), times in ticks:
\* on_new_frame(end_time_s, Some(end_time_s - before_time_s)).
App_update_frame_history(h, before_ticks, end_ticks) ==
    on_new_frame(h, end_ticks, Some(end_ticks - before_ticks))

\* The counter's reading at the start of the current iteration, counted from start_ticks:
\* the now of the last sample.
StartedAt == IF newest = -1 THEN 0 ELSE newest

\* update_frame_history(before_ticks, end_ticks); before_ticks = end_ticks; let mut skips = 0.
\* The sample's duration is kept in obs.  Where env.history holds the statistics window is
\* followed as well, with the counter's readings counted from start_ticks, up to MaxRunTicks.
update_frame_history ==
    /\ pc = "update_frame_history"
    /\ obs' = [obs EXCEPT !.trace = Append(@, Step("update_frame_history", TRUE)),
                          !.frame_duration = run.end_ticks - run.before_ticks]
    /\ run' = [run EXCEPT !.before_ticks = 0,
                          !.end_ticks = 0,
                          !.last_stats_update = @ - run.end_ticks,
                          !.skips = 0]
    /\ clock' = clock - run.end_ticks
    /\ pc' = "catch_up"
    /\ IF env.history
       THEN LET before_ticks == StartedAt + run.before_ticks
                end_ticks == StartedAt + run.end_ticks
            IN  /\ end_ticks <= MaxRunTicks
                /\ frame_times' = App_update_frame_history(frame_times, before_ticks, end_ticks)
                /\ newest' = end_ticks
                /\ evicted' = SetMax({evicted} \cup
                                     Dropped(Append(frame_times.values,
                                                    [t |-> end_ticks, v |-> 0]),
                                             frame_times'.values))
                /\ hist' = LET sample == frame_times'.values[Len(frame_times'.values)]
                           IN  Append(hist, [op |-> "on_new_frame", now |-> sample.t,
                                             arg |-> Some(sample.v)])
       ELSE UNCHANGED <<hist, frame_times, newest, evicted>>
    /\ UNCHANGED <<actions, pressed_keys, polled>>
    /\ UNCHANGED <<key_actions, env, last>>

\* A catch-up loop that is never entered.
catch_up_due_never == FALSE

\* The catch-up loop's condition without its test of excess_ticks.
catch_up_due_whatever_excess == run.skips < MAX_FRAME_SKIPS

\* The catch-up loop's condition without its cap on skips.
catch_up_due_without_cap == run.excess_ticks >= frame_ticks

\* while excess_ticks >= frame_ticks && skips < Self::MAX_FRAME_SKIPS
catch_up_due == run.excess_ticks >= frame_ticks /\ run.skips < MAX_FRAME_SKIPS

catch_up ==
    /\ pc = "catch_up"
    /\ IF catch_up_due
       THEN update("catch_up", "catch_up")
       ELSE /\ pc' = "handle_events"
            /\ UNCHANGED <<actions, pressed_keys, run, clock, polled, obs>>
    /\ UNCHANGED Outside

NextLoop ==
    \/ handle_events
    \/ show_ui
    \/ regular_update
    \/ render
    \/ pace
    \/ spin
    \/ update_frame_history
    \/ catch_up

\* Any stall up to MaxElapsed; the only event is the platform's quit.
InitLoop ==
    LoopStart([events |-> {QuitEvent}, max_batch |-> 1, max_read |-> MaxElapsed,
               max_step |-> MaxStep, monotonic |-> TRUE, history |-> FALSE])

\* Every batch of events, on a platform that is never behind schedule.
InitEvents ==
    LoopStart([events |-> AllEvents, max_batch |-> MaxBatch, max_read |-> frame_ticks,
               max_step |-> 0, monotonic |-> TRUE, history |-> FALSE])

\* A counter that may give a reading smaller than an earlier one.
InitAnyClock ==
    LoopStart([events |-> {QuitEvent}, max_batch |-> 1, max_read |-> frame_ticks + MaxStep,
               max_step |-> MaxStep, monotonic |-> FALSE, history |-> FALSE])

\* A run followed from its start for MaxRunPeriods frame periods, with the statistics window;
\* stalls of up to two frame periods.
InitFrames ==
    LoopStart([events |-> {QuitEvent}, max_batch |-> 1, max_read |-> 2 * frame_ticks,
               max_step |-> MaxStep, monotonic |-> TRUE, history |-> TRUE])

\* Any stall up to MaxElapsed at the reading of after_ticks, no time passing elsewhere.
InitDrain ==
    LoopStart([events |-> {QuitEvent}, max_batch |-> 1, max_read |-> MaxElapsed,
               max_step |-> 0, monotonic |-> TRUE, history |-> FALSE])

SpecLoop == InitLoop /\ [][NextLoop]_vars
SpecFrames == InitFrames /\ [][NextLoop]_vars

\* The loop is one thread that runs on while it has a next statement.
SpecDrain == InitDrain /\ [][NextLoop]_vars /\ WF_vars(NextLoop)
SpecEvents == InitEvents /\ [][NextLoop]_vars
SpecAnyClock == InitAnyClock /\ [][NextLoop]_vars

\* The positions of the current iteration's trace that hold one of the given steps.
StepsOf(names) == {i \in 1..Len(obs.trace) : obs.trace[i].step \in names}

\* The iteration in obs has run to its end: the loop is about to poll again.
IterationOver == pc = "handle_events" /\ obs.trace # <<>>

(***************************************************************************)
(* C11. In every iteration of the main loop at most 1 + MAX_FRAME_SKIPS    *)
(* update calls run, at most MAX_FRAME_SKIPS of them catch-up updates and  *)
(* at most one of them the regular update; an iteration that runs to its   *)
(* end has run exactly one render pass, and no render pass follows a       *)
(* catch-up update.                                                        *)
(***************************************************************************)
C11_UpdatesAndRendersPerIteration ==
    /\ Cardinality(StepsOf({"update", "catch_up"})) <= 1 + MAX_FRAME_SKIPS
    /\ Cardinality(StepsOf({"catch_up"})) <= MAX_FRAME_SKIPS
    /\ Cardinality(StepsOf({"update"})) <= 1
    /\ Cardinality(StepsOf({"render"})) <= 1
    /\ IterationOver => Cardinality(StepsOf({"render"})) = 1
    /\ \A i \in StepsOf({"catch_up"}), j \in StepsOf({"render"}) : j < i

\* An iteration that ran the regular update and MAX_FRAME_SKIPS catch-up updates, and is over.
C11_Witness ==
    /\ IterationOver
    /\ Cardinality(StepsOf({"update", "catch_up"})) = 1 + MAX_FRAME_SKIPS
    /\ Cardinality(StepsOf({"render"})) = 1
    /\ run.excess_ticks >= frame_ticks

\* The frame of the current iteration has been measured and recorded.
FrameRecorded == StepsOf({"update_frame_history"}) # {}

(***************************************************************************)
(* C12. Every elapsed tick is accounted for: once the frame of an          *)
(* iteration is recorded, its duration is one frame period for the regular *)
(* update, one for each catch-up update run so far, the growth of          *)
(* excess_ticks and the growth of over_sleep_ticks since the iteration     *)
(* began.                                                                  *)
(***************************************************************************)
C12_ElapsedTicksAccounted ==
    FrameRecorded =>
        obs.frame_duration =
            frame_ticks * (1 + run.skips)
            + (run.excess_ticks - obs.excess0)
            + (run.over_sleep_ticks - obs.over0)

\* The iteration in obs began with nothing carried over and measured proc_ticks = k * frame_ticks.
StallOf(k) ==
    /\ obs.excess0 = 0
    /\ obs.over0 = 0
    /\ obs.proc_ticks = k * frame_ticks

Min(a, b) == IF a < b THEN a ELSE b

(***************************************************************************)
(* C13. An iteration that begins with excess_ticks = 0 and                 *)
(* over_sleep_ticks = 0, measures proc_ticks = k * frame_ticks (k >= 1)    *)
(* and runs to its end has run one regular update and exactly              *)
(* min(k - 1, MAX_FRAME_SKIPS) catch-up updates, and leaves the periods    *)
(* it did not serve in excess_ticks.                                       *)
(***************************************************************************)
C13_StallOfKPeriods ==
    \A k \in 1..(MAX_FRAME_SKIPS + 2) :
        (IterationOver /\ StallOf(k)) =>
            /\ Cardinality(StepsOf({"update"})) = 1
            /\ Cardinality(StepsOf({"catch_up"})) = Min(k - 1, MAX_FRAME_SKIPS)
            /\ run.excess_ticks = (k - 1 - Min(k - 1, MAX_FRAME_SKIPS)) * frame_ticks

\* A stall of MAX_FRAME_SKIPS + 2 periods: five catch-up updates, one period left over.
C13_Witness ==
    /\ IterationOver
    /\ StallOf(MAX_FRAME_SKIPS + 2)
    /\ Cardinality(StepsOf({"catch_up"})) = MAX_FRAME_SKIPS
    /\ run.excess_ticks = frame_ticks

QuitCondition(ev) ==
    \/ ev.type = "Quit"
    \/ ev.type = "KeyDown" /\ ev.key = "Escape"
    \/ ev.type = "Window" /\ ev.own /\ ev.win = "Close"

\* The positions of the polled batch that hold a quit condition.
QuitPositions == {i \in 1..Len(polled.batch) : QuitCondition(polled.batch[i])}

\* The events of the polled batch that come before its first quit condition.
BeforeQuit ==
    SubSeq(polled.batch, 1, (CHOOSE i \in QuitPositions : \A j \in QuitPositions : i <= j) - 1)

IsKeyEvent(ev) == ev.type \in {"KeyDown", "KeyUp"}

\* The InputManager calls that route the key events of a sequence of events, in order.
RoutingOf(events) ==
    LET keys == SelectSeq(events, IsKeyEvent)
    IN  [i \in 1..Len(keys) |->
            ManagerCall(IF keys[i].type = "KeyDown" THEN "key_pressed" ELSE "key_released",
                        keys[i].key)]

\* The calls handle_events made on the InputManager for the events of the batch.
RoutedCalls == SelectSeq(polled.calls, LAMBDA c : c.op # "release_all")

(***************************************************************************)
(* C15. When the batch that handle_events polls holds a quit condition,    *)
(* the loop has ended with success right after that pass: no show_ui,      *)
(* update, render, sleep, frame record or catch-up step has run in that    *)
(* iteration, the only key events routed to the InputManager are those     *)
(* before the first quit condition, and no step is ever taken after the    *)
(* loop has ended.                                                         *)
(***************************************************************************)
C15_QuitEndsLoop ==
    /\ [](QuitPositions # {} =>
             /\ pc = "done"
             /\ obs.trace = <<Step("handle_events", TRUE)>>
             /\ RoutedCalls = IF polled.wants THEN <<>> ELSE RoutingOf(BeforeQuit))
    /\ [][pc # "done"]_vars

\* A batch whose quit condition comes between two key-downs of the mapped key: the first
\* was routed, the second was not, and the loop has ended.
C15_Witness ==
    /\ pc = "done"
    /\ ~polled.wants
    /\ Len(polled.batch) = MaxBatch
    /\ polled.batch[1] = KeyUp(KeycodeA)
    /\ QuitCondition(polled.batch[2])
    /\ polled.calls = <<ManagerCall("key_released", KeycodeA)>>
    /\ actions[ActionA].state = "Released"

\* The positions of the current iteration's trace whose step returned a failure.
FailedSteps == {i \in 1..Len(obs.trace) : ~obs.trace[i].ok}

(***************************************************************************)
(* C16. A failure returned by show_ui, by the regular update, by the       *)
(* render pass or by a catch-up update ends the loop with a failure: the   *)
(* failed step is the last step that ran, and no step is ever taken after  *)
(* the loop has failed.                                                    *)
(***************************************************************************)
C16_FailureEndsLoop ==
    /\ [](\A i \in FailedSteps : i = Len(obs.trace) /\ pc = "failed")
    /\ [](pc = "failed" => FailedSteps # {})
    /\ [][pc # "failed"]_vars

\* A catch-up update failed after the frame was recorded and one catch-up update had run.
C16_Witness ==
    /\ pc = "failed"
    /\ obs.trace[Len(obs.trace)] = Step("catch_up", FALSE)
    /\ run.skips = 1
    /\ run.excess_ticks >= frame_ticks

(***************************************************************************)
(* C17. Whatever the counter reads, also a reading smaller than an earlier *)
(* one, no elapsed time the loop computes (after_ticks - before_ticks,     *)
(* end_ticks - after_ticks, end_ticks - before_ticks,                      *)
(* now - last_stats_update) panics or wraps: the loop never leaves its     *)
(* steps through a subtraction.                                            *)
(***************************************************************************)
C17_ElapsedTimesSaturate ==
    /\ pc \notin {"panic", "wrapped"}
    /\ obs.fault = "none"

\* handle_events has just returned: polled holds the pass it made.
PassOver == pc \in {"show_ui", "done"}

AllReads(m, n) == \A q \in m..n : hist[q].op = "get_amount"

C22_HeldReadWaitsForRelease ==
    Behavior = "DetectInitialPressOnly" =>
        \A n \in 1..Len(hist) :
            (hist[n].op = "get_amount" /\ StateBefore(n) = "Pressed") =>
                /\ hist[n].state = "WaitingForRelease"
                /\ hist[n].amount = 0

(***************************************************************************)
(* C23. press_with(x) (press() is press_with(1)) called while the state is *)
(* WaitingForRelease changes neither the amount nor the state, for every   *)
(* behavior and every x; a read made after it still returns what it would  *)
(* have returned before.                                                   *)
(***************************************************************************)
C23_PressWhileWaitingIsNoOp ==
    \A n \in 1..Len(hist) :
        (hist[n].op = "press_with" /\ StateBefore(n) = "WaitingForRelease") =>
            /\ hist[n].state = "WaitingForRelease"
            /\ hist[n].amount = AmountBefore(n)
            /\ (n < Len(hist) /\ hist[n + 1].op = "get_amount") =>
                   hist[n + 1].ret = AmountBefore(n)

\* A held DetectInitialPressOnly action with amount 1 is read, which makes it wait for
\* its release, and is then pressed with the largest amount.
C23_Witness ==
    /\ Len(hist) = 3
    /\ Behavior = "DetectInitialPressOnly"
    /\ hist[1].op = "given" /\ hist[1].state = "Pressed" /\ hist[1].amount = 1
    /\ hist[2].op = "get_amount" /\ hist[2].state = "WaitingForRelease"
    /\ hist[3].op = "press_with" /\ hist[3].arg = I32Max
    /\ actions[Target].state = "WaitingForRelease"
    /\ actions[Target].amount = 0

(***************************************************************************)
(* C24. release() leaves the action Released whatever its state was and    *)
(* leaves its amount as it was: is_pressed() still tells whether that      *)
(* amount is nonzero, and a get_amount() made next returns it and clears   *)
(* it.                                                                     *)
(***************************************************************************)
C24_ReleaseKeepsAmount ==
    \A n \in 1..Len(hist) :
        hist[n].op = "release" =>
            /\ hist[n].state = "Released"
            /\ hist[n].amount = AmountBefore(n)
            /\ n = Len(hist) => (is_pressed(actions[Target]) <=> AmountBefore(n) # 0)
            /\ (n < Len(hist) /\ hist[n + 1].op = "get_amount") =>
                   /\ hist[n + 1].ret = AmountBefore(n)
                   /\ hist[n + 1].amount = 0

\* An action that waits for its release with amount 1 is released and then read.
C24_Witness ==
    /\ Len(hist) = 3
    /\ hist[1].op = "given" /\ hist[1].state = "WaitingForRelease" /\ hist[1].amount = 1
    /\ hist[2].op = "release" /\ hist[2].amount = 1
    /\ hist[3].op = "get_amount" /\ hist[3].ret = 1
    /\ actions[Target].amount = 0

\* The action before call n.
ActionBefore(n) ==
    [behavior |-> Behavior, state |-> StateBefore(n), amount |-> AmountBefore(n)]

(***************************************************************************)
(* C25. Over any calls of press_with, release, tap, get_amount and reset:  *)
(* an action enters WaitingForRelease only if its behavior is              *)
(* DetectInitialPressOnly, only from Pressed and only by a read; it leaves *)
(* WaitingForRelease only to Released, by release() or reset() (tap()      *)
(* leaves it by the release() it ends with, not by its press()); and a     *)
(* press never moves it out of WaitingForRelease.                          *)
(***************************************************************************)
C25_WaitingForReleaseTransitions ==
    \A n \in 1..Len(hist) :
        hist[n].op # "given" =>
            /\ (hist[n].state = "WaitingForRelease" /\ StateBefore(n) # "WaitingForRelease") =>
                   /\ Behavior = "DetectInitialPressOnly"
                   /\ StateBefore(n) = "Pressed"
                   /\ hist[n].op = "get_amount"
            /\ (StateBefore(n) = "WaitingForRelease" /\ hist[n].state # "WaitingForRelease") =>
                   /\ hist[n].state = "Released"
                   /\ hist[n].op \in {"release", "reset", "tap"}
                   /\ hist[n].op = "tap" =>
                          press(ActionBefore(n)).state = "WaitingForRelease"
            /\ (StateBefore(n) = "WaitingForRelease" /\ hist[n].op = "press_with") =>
                   hist[n].state = "WaitingForRelease"

\* A held DetectInitialPressOnly action with amount 1 is read, waits, and is released.
C25_Witness ==
    /\ Len(hist) = 3
    /\ Behavior = "DetectInitialPressOnly"
    /\ hist[1].op = "given" /\ hist[1].state = "Pressed" /\ hist[1].amount = 1
    /\ hist[2].op = "get_amount" /\ hist[2].state = "WaitingForRelease"
    /\ hist[3].op = "release" /\ hist[3].state = "Released"

\* What the InputManager call that makes a step did, by the call left in last.
KeyCallEffect ==
    /\ last'.op = "key_pressed" =>
           IF last'.key \in DOMAIN key_actions
           THEN LET action == key_actions[last'.key]
                IN  /\ actions' = [actions EXCEPT ![action] = press(actions[action])]
                    /\ pressed_keys' = Insert(pressed_keys, last'.key, action)
           ELSE UNCHANGED <<actions, pressed_keys>>
    /\ last'.op = "key_released" =>
           IF last'.key \in DOMAIN key_actions
           THEN LET action == key_actions[last'.key]
                IN  /\ actions' = [actions EXCEPT ![action] = release(actions[action])]
                    /\ pressed_keys' = Remove(pressed_keys, last'.key)
           ELSE UNCHANGED <<actions, pressed_keys>>
    /\ last'.op # "map_to_key" => UNCHANGED key_actions

(***************************************************************************)
(* C26. key_pressed(k) on a mapped key presses the action mapped to k and  *)
(* puts k in pressed_keys; key_released(k) on a mapped key releases that   *)
(* action and removes k from pressed_keys; on an unmapped key both leave   *)
(* key_actions, pressed_keys and every action as they were; only           *)
(* map_to_key changes key_actions.                                         *)
(***************************************************************************)
C26_KeyCallsActOnMappedKeys == [][KeyCallEffect]_vars

\* One key is mapped and held; the release of the other key, which is not mapped, has
\* left the held key and its action alone.
C26_Witness ==
    /\ last.op = "key_released"
    /\ last.key \notin DOMAIN key_actions
    /\ DOMAIN pressed_keys # {}
    /\ \A key \in DOMAIN pressed_keys : actions[pressed_keys[key]].state = "Pressed"

\* A key_pressed on a mapped key shows through every key mapped to the same action.
PressSeenThroughEveryKey ==
    (last'.op = "key_pressed" /\ last'.key \in DOMAIN key_actions) =>
        LET action == key_actions[last'.key]
        IN  /\ actions'[action] = press(actions[action])
            /\ \A other \in DOMAIN key_actions :
                   key_actions[other] = action =>
                       /\ get_key_action(other)' = action
                       /\ actions'[get_key_action(other)'] = press(actions[action])

(***************************************************************************)
(* C27. map_to_key shares the action and overwrites: after                 *)
(* map_to_key(k, a), get_key_action(k) is a, whatever k was mapped to      *)
(* before; and a key_pressed on a key changes the one action that the      *)
(* caller's handle and get_key_action of every key mapped to it show.      *)
(***************************************************************************)
C27_MappingSharesAndOverwrites ==
    /\ [](last.op = "map_to_key" => get_key_action(last.key) = last.action)
    /\ [][PressSeenThroughEveryKey]_vars

\* Both keys are mapped to one action, and a key_pressed on one of them has pressed it.
C27_Witness ==
    /\ last.op = "key_pressed"
    /\ DOMAIN key_actions = Keys
    /\ \A key \in Keys : get_key_action(key) = Target
    /\ DOMAIN pressed_keys = {last.key}
    /\ actions[Target].state = "Pressed"
    /\ actions[Target].amount > 0

\* ---------------------------------------------------------------------------
\* C28: on_new_frame writes in two phases
\* ---------------------------------------------------------------------------

\* The durations passed to the on_new_frame calls logged in hist.
Durations == [i \in 1..Len(hist) |-> unwrap_or_default(hist[i].arg)]

\* The durations the history retains, oldest first.
RetainedDurations == [i \in 1..Len(frame_times.values) |-> frame_times.values[i].v]

NothingEvicted == evicted = -1 /\ hist # <<>>

\* C28: each on_new_frame call overwrites the newest sample's duration with the
\* duration passed in and then appends a sample for now holding that same
\* duration: after calls with durations d1, ..., dn (n >= 2, nothing evicted)
\* the retained durations are d2, d3, ..., dn, dn, and the first call on an
\* empty history only appends.
C28_TwoPhaseWrite ==
    NothingEvicted =>
        LET n == Len(hist) IN
        /\ Len(RetainedDurations) = n
        /\ \A i \in 1..n : frame_times.values[i].t = hist[i].now
        /\ RetainedDurations[n] = Durations[n]
        /\ \A i \in 1..(n - 1) : RetainedDurations[i] = Durations[i + 1]

C28_Witness ==
    /\ NothingEvicted
    /\ Durations = <<1, 2, 0>>
    /\ RetainedDurations = <<2, 0, 0>>

\* ---------------------------------------------------------------------------
\* C29: the on-schedule branch
\* ---------------------------------------------------------------------------

\* The iteration in obs took the on-schedule branch (frame_ticks >= proc_ticks).
OnScheduleIteration == StepsOf({"sleep", "no_sleep"}) # {}

\* The step that takes the on-schedule branch: the sleep (if any) and the reading of
\* end_ticks.  after_ticks is proc_ticks less the carried over_sleep_ticks.
WakeStep ==
    /\ pc = "pace"
    /\ pc' \in {"spin", "update_frame_history"}
    /\ obs'.trace[Len(obs'.trace)].step \in {"sleep", "no_sleep"}

\* The thread woke before sleep_ticks had elapsed since after_ticks.
WokeEarly ==
    LET proc_ticks == obs'.proc_ticks
        after_ticks == run.before_ticks + (proc_ticks - run.over_sleep_ticks)
        sleep_ticks == frame_ticks - proc_ticks
    IN  run'.end_ticks - after_ticks < sleep_ticks

\* An early wake clamps over_sleep_ticks to 0 and enters the spin loop, which is left
\* only when end_ticks - before_ticks has reached frame_ticks.
EarlyWakeSpins ==
    /\ WakeStep /\ WokeEarly => pc' = "spin" /\ run'.over_sleep_ticks = 0
    /\ pc = "spin" /\ pc' # "spin" =>
           /\ pc' = "update_frame_history"
           /\ run'.end_ticks = run.end_ticks
           /\ run.end_ticks - run.before_ticks >= frame_ticks

BehindIteration == StepsOf({"yield", "no_yield"}) # {}

\* The step that takes the behind-schedule branch.
BehindStep ==
    /\ pc = "pace"
    /\ pc' = "update_frame_history"
    /\ obs'.trace[Len(obs'.trace)].step \in {"yield", "no_yield"}

\* The behind-schedule branch counts the iteration and yields when the count reaches
\* NUM_DELAYS_PER_YIELD; no step outside the pacing writes num_delays.
DelayCounted ==
    /\ BehindStep =>
           LET num_delays == run.num_delays + 1
               yielded == obs'.trace[Len(obs'.trace)].step = "yield"
           IN  /\ yielded <=> num_delays = NUM_DELAYS_PER_YIELD
               /\ run'.num_delays = IF yielded THEN 0 ELSE num_delays
    /\ run'.num_delays # run.num_delays => pc \in {"pace", "spin"}

\* C30: num_delays counts the behind-schedule iterations since the last on-schedule
\* iteration or yield: a behind-schedule iteration never sleeps and increments it, an
\* on-schedule iteration resets it to 0, the processor is yielded once in exactly the
\* iterations where it reaches NUM_DELAYS_PER_YIELD, after which it is 0; it is below
\* NUM_DELAYS_PER_YIELD at the end of every iteration.
C30_DelaysCountedAndYielded ==
    /\ [](run.num_delays >= 0 /\ run.num_delays < NUM_DELAYS_PER_YIELD)
    /\ [](BehindIteration => ~OnScheduleIteration)
    /\ [](Cardinality(StepsOf({"yield", "no_yield"})) <= 1)
    /\ [](OnScheduleIteration /\ FrameRecorded => run.num_delays = 0)
    /\ [](StepsOf({"yield"}) # {} => run.num_delays = 0)
    /\ [][DelayCounted]_vars

\* The sixteenth behind-schedule iteration in a row has yielded.
C30_Witness ==
    /\ StepsOf({"yield"}) # {}
    /\ FrameRecorded
    /\ run.num_delays = 0

\* ---------------------------------------------------------------------------
\* C36: the accumulator saturates
\* ---------------------------------------------------------------------------

\* C36: the amount of an InputAction never wraps: after any sequence of press_with
\* calls with signed amounts it is an i32, a press with a positive amount never
\* lowers it and one with a negative amount never raises it, a press that changes
\* it adds its amount when the sum is an i32 and otherwise leaves it at i32::MAX
\* (or i32::MIN), where it stays under further presses of the same sign.
C36_AccumulatorSaturates ==
    /\ actions[Target].amount \in I32Min..I32Max
    /\ \A n \in 1..Len(hist) :
           hist[n].op = "press_with" =>
               LET x == AmountBefore(n)
                   a == hist[n].arg
                   y == hist[n].amount
               IN  /\ a >= 0 => y >= x
                   /\ a <= 0 => y <= x
                   /\ y # x => IF Fits(x, a) THEN y = x + a
                               ELSE y = IF a > 0 THEN I32Max ELSE I32Min

\* The amount sticks at i32::MAX under a further press, comes back by i32::MIN
\* to -1 and sticks at i32::MIN.
C36_Witness ==
    /\ Behavior = "Normal"
    /\ Len(hist) = 4
    /\ AllPresses(1, 4)
    /\ hist[1].arg = I32Max /\ hist[1].amount = I32Max
    /\ hist[2].arg = 1 /\ hist[2].amount = I32Max
    /\ hist[3].arg = I32Min /\ hist[3].amount = 0 - 1
    /\ hist[4].arg = I32Min /\ hist[4].amount = I32Min

\* ---------------------------------------------------------------------------
\* C35: an action held through two keys
\* ---------------------------------------------------------------------------

\* k1 and k2 are mapped to one action and both are held for it.
HeldForSameAction(k1, k2) ==
    /\ k1 # k2
    /\ {k1, k2} \subseteq DOMAIN key_actions
    /\ {k1, k2} \subseteq DOMAIN pressed_keys
    /\ key_actions[k1] = key_actions[k2]
    /\ pressed_keys[k1] = key_actions[k1]
    /\ pressed_keys[k2] = key_actions[k2]

\* key_released(k1) releases the shared action and leaves k2 in pressed_keys.
SharedActionReleased ==
    \A k1, k2 \in Keys :
        (HeldForSameAction(k1, k2) /\ last'.op = "key_released" /\ last'.key = k1) =>
            /\ k1 \notin DOMAIN pressed_keys'
            /\ k2 \in DOMAIN pressed_keys'
            /\ pressed_keys'[k2] = pressed_keys[k2]
            /\ actions'[pressed_keys'[k2]].state = "Released"

\* C35: when two keys k1 and k2 are mapped to the same action and both are held,
\* key_released(k1) puts the shared action in state Released although k2 is
\* still in pressed_keys: a key in pressed_keys does not imply that its action
\* is in state Pressed.
C35_ReleaseOfOneKeyReleasesSharedAction == [][SharedActionReleased]_vars

\* One of two keys held for the same action has been released: the other is still in
\* pressed_keys and its action is Released.
C35_Witness ==
    /\ last.op = "key_released"
    /\ last.key \in DOMAIN key_actions
    /\ last.held = {key_actions[last.key]}
    /\ \E k2 \in DOMAIN pressed_keys :
           /\ k2 # last.key
           /\ pressed_keys[k2] = key_actions[k2]
           /\ key_actions[k2] = key_actions[last.key]
           /\ actions[pressed_keys[k2]].state = "Released"

\* ---------------------------------------------------------------------------
\* C34: events no arm of the match recognizes
\* ---------------------------------------------------------------------------

\* ev takes the `_ => {}` arm of the match or of the inner match on win_event, or is a
\* key event for a key that is not mapped.
Unrecognized(ev) ==
    \/ ev.type = "Other"
    \/ ev.type = "Window" /\ ~ev.own
    \/ ev.type = "Window" /\ ev.own /\ ev.win = "Moved"
    \/ ev.type \in {"KeyDown", "KeyUp"} /\ ev.key # "Escape" /\ ev.key \notin DOMAIN key_actions

Recognized(ev) == ~Unrecognized(ev)

\* handle_events has just run on polled'.batch: it has left the InputManager, the actions
\* and its outcome as the same batch without its unrecognized events would.
BatchHandledAsWithoutUnrecognized ==
    pc = "handle_events" /\ pc' # "handle_events" =>
        LET st == poll_iter(before_events(Manager, polled'.wants),
                            SelectSeq(polled'.batch, Recognized), 1, polled'.wants)
        IN  /\ actions' = st.m.actions
            /\ pressed_keys' = st.m.pressed_keys
            /\ key_actions' = key_actions
            /\ pc' = IF st.outcome = "Quit" THEN "done" ELSE "show_ui"

\* One unrecognized event, handled in any state the loop reaches, leaves the
\* InputManager and the actions alone and the outcome at Continue.
UnrecognizedEventIgnored ==
    \A ev \in env.events, egui_wants_keyboard_input \in BOOLEAN :
        Unrecognized(ev) =>
            LET st == HandleEvent([m |-> Manager, calls |-> <<>>, outcome |-> "Continue"],
                                  ev, egui_wants_keyboard_input)
            IN  st.m = Manager /\ st.outcome = "Continue"

\* C34: an event of the polled batch that matches no recognized case (a key event
\* for an unmapped key and a window event of another window included) is ignored:
\* it changes neither the InputManager nor any action, the events after it in the
\* batch are handled as without it, and it does not make handle_events return Quit
\* or fail.
C34_UnrecognizedEventsIgnored ==
    /\ [](UnrecognizedEventIgnored)
    /\ [][BatchHandledAsWithoutUnrecognized]_vars

\* An unrecognized event came before the KeyDown of the mapped key, which was handled.
C34_Witness ==
    /\ pc = "show_ui"
    /\ ~polled.wants
    /\ Len(polled.batch) = 2
    /\ Unrecognized(polled.batch[1])
    /\ polled.batch[2] = KeyDown(KeycodeA)
    /\ KeycodeA \in DOMAIN pressed_keys
    /\ actions[ActionA].state = "Pressed"

\* ---------------------------------------------------------------------------
\* C32: the catch-up loop
\* ---------------------------------------------------------------------------

\* The catch-up updates of the iteration in obs that returned Ok, among the first n steps.
CatchUpsDone(n) == Cardinality({i \in StepsOf({"catch_up"}) : i <= n /\ obs.trace[i].ok})

\* excess_ticks when the frame was recorded: what the iteration began with and what the
\* behind-schedule branch added.
ExcessAtRecord ==
    obs.excess0 + (IF StepsOf({"yield", "no_yield"}) # {} THEN obs.proc_ticks - frame_ticks
                   ELSE 0)

\* C32: at the end of the catch-up loop of every iteration excess_ticks < frame_ticks
\* or exactly MAX_FRAME_SKIPS catch-up updates ran in the iteration; each catch-up
\* update subtracts exactly frame_ticks from excess_ticks; no catch-up update runs
\* while excess_ticks < frame_ticks.
C32_CatchUpLoop ==
    /\ IterationOver =>
           \/ run.excess_ticks < frame_ticks
           \/ Cardinality(StepsOf({"catch_up"})) = MAX_FRAME_SKIPS
    /\ FrameRecorded =>
           /\ run.skips = CatchUpsDone(Len(obs.trace))
           /\ run.excess_ticks = ExcessAtRecord - frame_ticks * run.skips
    /\ \A i \in StepsOf({"catch_up"}) :
           ExcessAtRecord - frame_ticks * CatchUpsDone(i - 1) >= frame_ticks

\* The loop was left by its cap with more than a period of excess, after five updates
\* that took one period each.
C32_Witness ==
    /\ IterationOver
    /\ Cardinality(StepsOf({"catch_up"})) = MAX_FRAME_SKIPS
    /\ run.excess_ticks >= frame_ticks
    /\ run.excess_ticks = ExcessAtRecord - frame_ticks * MAX_FRAME_SKIPS
    /\ obs.excess0 > 0

\* ---------------------------------------------------------------------------
\* C31: over_sleep_ticks is carried one iteration
\* ---------------------------------------------------------------------------

\* The iteration in obs has read after_ticks and taken one of the two branches.
Paced == OnScheduleIteration \/ BehindIteration

\* C31: the over_sleep_ticks an iteration leaves is added to the next iteration's
\* measured ticks (after_ticks - before_ticks) to form its proc_ticks, which
\* shortens its sleep or takes it to the behind-schedule branch; a behind-schedule
\* iteration adds proc_ticks - frame_ticks (> 0) to excess_ticks and leaves
\* over_sleep_ticks = 0; an on-schedule iteration leaves 0 or the time its own
\* shortened sleep overshot: no oversleep is counted in two iterations.
C31_OverSleepCarriedOnce ==
    /\ Paced => obs.proc_ticks = (obs.after_ticks - run.before_ticks) + obs.over0
    /\ ~Paced => run.over_sleep_ticks = obs.over0 \/ obs.trace = <<>>
    /\ BehindIteration =>
           /\ obs.proc_ticks - frame_ticks > 0
           /\ run.over_sleep_ticks = 0
           /\ run.excess_ticks = obs.excess0 + (obs.proc_ticks - frame_ticks)
                                  - frame_ticks * CatchUpsDone(Len(obs.trace))
    /\ OnScheduleIteration =>
           /\ obs.proc_ticks <= frame_ticks
           /\ pc = "update_frame_history" =>
                  LET sleep_ticks == frame_ticks - obs.proc_ticks
                  IN  \/ run.over_sleep_ticks = 0
                      \/ run.over_sleep_ticks = (run.end_ticks - obs.after_ticks) - sleep_ticks

\* The oversleep of the iteration before took this one, whose measured ticks were within
\* the period, to the behind-schedule branch: it went to excess_ticks and is not carried on.
C31_Witness ==
    /\ BehindIteration
    /\ FrameRecorded
    /\ obs.over0 > 0
    /\ obs.after_ticks <= frame_ticks
    /\ run.over_sleep_ticks = 0
    /\ run.excess_ticks = obs.excess0 + obs.over0

\* ---------------------------------------------------------------------------
\* C33: the order of an iteration and the samples it records (SpecFrames)
\* ---------------------------------------------------------------------------

\* The steps an iteration may take as its i-th.
StepAt(i) ==
    CASE i = 1 -> {"handle_events"}
      [] i = 2 -> {"show_ui"}
      [] i = 3 -> {"update"}
      [] i = 4 -> {"render"}
      [] i = 5 -> {"sleep", "no_sleep", "yield", "no_yield"}
      [] i = 6 -> {"update_frame_history"}
      [] OTHER -> {"catch_up"}

\* The duration of the i-th sample recorded since the loop started.
DurationOf(i) == unwrap_or_default(hist[i].arg)

RECURSIVE SumDurations(_)
SumDurations(n) == IF n = 0 THEN 0 ELSE DurationOf(n) + SumDurations(n - 1)

\* The samples are contiguous: each one's duration runs from the sample before (from
\* start_ticks for the first) to its own end_ticks.
SamplesContiguous ==
    \A i \in 1..Len(hist) :
        DurationOf(i) = hist[i].now - (IF i = 1 THEN 0 ELSE hist[i - 1].now)

\* A sample is recorded by update_frame_history alone, one at a time; the reading of
\* after_ticks is no earlier than the clock, which has gone on through the catch-up
\* updates of the iteration before since that iteration's end_ticks.
OneSamplePerIteration ==
    /\ hist' # hist =>
           /\ pc = "update_frame_history"
           /\ obs.frame_duration = 0 /\ ~FrameRecorded
           /\ Len(hist') = Len(hist) + 1
           /\ unwrap_or_default(hist'[Len(hist')].arg) = run.end_ticks - run.before_ticks
           /\ obs'.frame_duration = run.end_ticks - run.before_ticks
    /\ pc = "pace" /\ Paced' => obs'.after_ticks >= clock

\* C33: a completed iteration has polled the events, run one update and one render,
\* paced, recorded the frame and then run its catch-up updates, in this order; it
\* has recorded exactly one sample, of duration end_ticks - before_ticks; the next
\* iteration's before_ticks is this one's end_ticks, so the durations are
\* contiguous and sum to the ticks from the loop's start to the last end_ticks
\* (the time of the catch-up updates goes to the next iteration's sample).
C33_IterationOrderAndSamples ==
    /\ [](\A i \in 1..Len(obs.trace) : obs.trace[i].step \in StepAt(i))
    /\ [](IterationOver => Len(obs.trace) >= 6)
    /\ [](run.before_ticks = run.end_ticks \/ ~FrameRecorded)
    /\ [](SamplesContiguous)
    /\ [](SumDurations(Len(hist)) = StartedAt)
    /\ [](hist # <<>> =>
            LET latest == frame_times.values[Len(frame_times.values)]
            IN  latest.t = StartedAt /\ latest.v = DurationOf(Len(hist)))
    /\ [][OneSamplePerIteration]_vars

\* Two samples have been recorded; the second iteration ran a catch-up update, during
\* which the counter went on: that time is not in the two samples.
C33_Witness ==
    /\ IterationOver
    /\ Len(hist) = 2
    /\ StartedAt = DurationOf(1) + DurationOf(2)
    /\ StepsOf({"catch_up"}) # {}
    /\ clock > run.before_ticks

\* ---------------------------------------------------------------------------
\* C37: a backlog is drained once the overload is over (SpecDrain)
\* ---------------------------------------------------------------------------

\* The loop goes on iterating for ever.
IteratesForEver == []<>(pc = "handle_events") /\ []<>(pc = "pace")

\* From some iteration on every iteration takes the on-schedule branch.
OverloadEnds == <>[](~BehindIteration)

=============================================================================
